---- MODULE Spec2Model ----
(***************************************************************************)
(* Model of the arrival engine of src/framework.ts (class Simulation).     *)
(*                                                                         *)
(* Virtual time is a rational number in the program (tickDelta =           *)
(* 1000 / eventsPer1000Ticks need not be an integer).  The model keeps     *)
(* every timestamp as an integer count of 1/TimeScale ticks, where         *)
(* TimeScale is chosen so that every tickDelta of the modelled rates is    *)
(* exact.  One tick is therefore the value Tick.                           *)
(*                                                                         *)
(* JavaScript runs the synchronous part of a handler to completion: the    *)
(* promise callbacks of createEvent and the clock run only while run()     *)
(* is suspended at an await.  The actions below follow that discipline.    *)
(***************************************************************************)
EXTENDS Integers, Sequences, FiniteSets, TLC

\* ------------------------------------------------------------------ bounds
MaxEvents == 4
MaxLatency == 1
\* Largest event collection handed to the statistics functions.
MaxCollection == 16

\* ------------------------------------------------------- program constants
\* framework.ts:8   eventsPer1000Ticks: number = 50
DefaultRate == 50
\* framework.ts:55  const tickDelta = 1000 / this.eventsPer1000Ticks
RateWindow == 1000

\* The arrival rates a caller configures in this model: the default (20
\* ticks apart), a fractional tickDelta above 1 (300), one event per tick
\* (1000), the batching branch with floor(1/tickDelta) = 1 (1500), = 2
\* (2000) and = 3 with a fractional quotient (3500).
Rates == {DefaultRate, 300, RateWindow, 1500, 2 * RateWindow, 3500}

RECURSIVE GCD(_, _)
GCD(a, b) == IF b = 0 THEN a ELSE GCD(b, a % b)

LCM(a, b) == (a * b) \div GCD(a, b)

RECURSIVE LCMOver(_)
LCMOver(S) ==
    IF S = {} THEN 1
    ELSE LET x == CHOOSE y \in S : TRUE IN LCM(x, LCMOver(S \ {x}))

\* Number of model time units per tick.
TimeScale == LCMOver({r \div GCD(RateWindow, r) : r \in Rates})
Tick == TimeScale

\* A field that has not been written (JavaScript undefined).
Undefined == 0 - 1
\* The due time of a stage call that never settles.
Never == 0 - 1
Unset == "unset"

\* What a stage call resolves with, and what it rejects with.
StageResolutions == {"success"}
StageRejections == {"fail", "error"}
\* Latency of a stage call, in ticks; Never for a call that does not settle.
StageLatencies == {d * Tick : d \in 0..MaxLatency}

VARIABLES
    eventsPer1000Ticks,    \* Simulation.eventsPer1000Ticks
    arrivalRate,           \* Simulation._arrivalRate
    numEventsToSend,       \* argument of run()
    eventsSent,            \* sendEvents: let eventsSent
    eventsToSendThisTick,  \* sendEvents: let eventsToSendThisTick (1 in the single-event branch)
    batchIndex,            \* createEventBatch: let i
    events,                \* sendEvents: const events (the Event behind each promise)
    pc,                    \* position of run()/sendEvents
    now,                   \* metronome.now()
    running,               \* metronome started and not stopped
    wakeAt,                \* resume time of the pending metronome.wait
    accepted,              \* number of stage.accept invocations
    waits,                 \* number of metronome.wait invocations
    tickDelta,             \* sendEvents: const tickDelta of the current iteration
    table                  \* the table last handed to console.table

vars == <<eventsPer1000Ticks, arrivalRate, numEventsToSend, eventsSent,
          eventsToSendThisTick, batchIndex, events, pc, now, running, wakeAt, accepted,
          waits, tickDelta, table>>

\* ----------------------------------------------------------- pure helpers
\* const tickDelta = 1000 / this.eventsPer1000Ticks  (in model time units)
TickDelta(rate) == (RateWindow * TimeScale) \div rate

\* Math.floor(1 / tickDelta)
EventsPerTick(rate) == Tick \div TickDelta(rate)

\* Variant of BatchSize: the clamp to numEventsToSend is missing.
BatchSizeUnclamped(rate, sent, n) == EventsPerTick(rate)

\* if (eventsSent + eventsToSendThisTick > numEventsToSend)
\*     eventsToSendThisTick = numEventsToSend - eventsSent
BatchSize(rate, sent, n) ==
    IF sent + EventsPerTick(rate) > n THEN n - sent ELSE EventsPerTick(rate)

\* The promise returned by stage.accept(event) has not settled yet.
Pending(e) == e.stage = "pending"
\* The promise returned by createEvent has resolved with the event.
Settled(e) == e.promise = "fulfilled"

\* Wake times still queued on the clock: the arrival loop's wait and the
\* stage calls that are due.
WakeTimes ==
    (IF pc = "waiting" THEN {wakeAt} ELSE {})
    \cup {events[i].due : i \in {j \in 1..Len(events) :
                                   Pending(events[j]) /\ events[j].due # Never}}

SetMin(S) == CHOOSE x \in S : \A y \in S : x <= y

\* run() is suspended at an await, so callbacks and the clock may run.
Suspended == pc \in {"waiting", "joining"}

\* ---------------------------------------------------------------- actions
Init ==
    /\ eventsPer1000Ticks = DefaultRate
    /\ arrivalRate = 0
    /\ numEventsToSend = 0
    /\ eventsSent = 0
    /\ eventsToSendThisTick = 0
    /\ batchIndex = 0
    /\ events = <<>>
    /\ pc = "idle"
    /\ now = 0
    /\ running = FALSE
    /\ wakeAt = Undefined
    /\ accepted = 0
    /\ waits = 0
    /\ tickDelta = Undefined
    /\ table = <<>>

\* The caller assigns simulation.eventsPer1000Ticks before the run.
Configure(rate) ==
    /\ pc = "idle"
    /\ eventsPer1000Ticks' = rate
    /\ UNCHANGED <<arrivalRate, numEventsToSend, eventsSent, eventsToSendThisTick,
                   batchIndex, events, pc, now, running, wakeAt, accepted, waits,
                   tickDelta, table>>

\* Variant of Run: sendEvents is entered without metronome.start().
RunWithoutStart(n) ==
    /\ pc = "idle"
    /\ numEventsToSend' = n
    /\ now' = 0
    /\ events' = <<>>
    /\ eventsSent' = 0
    /\ pc' = "loop"
    /\ UNCHANGED <<eventsPer1000Ticks, arrivalRate, eventsToSendThisTick, batchIndex,
                   running, wakeAt, accepted, waits, tickDelta, table>>

\* run(stage, n): metronome.start(), then sendEvents is entered.
Run(n) ==
    /\ pc = "idle"
    /\ numEventsToSend' = n
    /\ running' = TRUE
    /\ now' = 0
    /\ events' = <<>>
    /\ eventsSent' = 0
    /\ pc' = "loop"
    /\ UNCHANGED <<eventsPer1000Ticks, arrivalRate, eventsToSendThisTick, batchIndex,
                   wakeAt, accepted, waits,
                   tickDelta, table>>

\* Variant of LoopTop: the rate is read once, in the first iteration, and
\* the later iterations reuse it.
LoopTopStaleRate ==
    LET rate == IF arrivalRate = 0 THEN eventsPer1000Ticks ELSE arrivalRate IN
    /\ pc = "loop"
    /\ tickDelta' = TickDelta(rate)
    /\ arrivalRate' = rate
    /\ eventsToSendThisTick' =
          IF tickDelta' < Tick
          THEN BatchSize(rate, eventsSent, numEventsToSend)
          ELSE 1
    /\ batchIndex' = 0
    /\ pc' = "submit"
    /\ UNCHANGED <<eventsPer1000Ticks, numEventsToSend, eventsSent, events, now,
                   running, wakeAt, accepted, waits, table>>

\* Top of the while loop: read the rate, publish it, choose the branch and
\* the number of createEvent calls of this iteration.
LoopTop ==
    /\ pc = "loop"
    /\ tickDelta' = TickDelta(eventsPer1000Ticks)
    /\ arrivalRate' = eventsPer1000Ticks
    /\ eventsToSendThisTick' =
          IF tickDelta' < Tick
          THEN BatchSize(eventsPer1000Ticks, eventsSent, numEventsToSend)
          ELSE 1
    /\ batchIndex' = 0
    /\ pc' = "submit"
    /\ UNCHANGED <<eventsPer1000Ticks, numEventsToSend, eventsSent, events, now,
                   running, wakeAt, accepted, waits, table>>

\* Variant of NewEvent: startTime is not read from the clock.
NewEventUnstamped(due) ==
    [startTime |-> 0, endTime |-> Undefined, response |-> Unset, due |-> due,
     stage |-> "pending", promise |-> "pending"]

\* The Event built by createEvent: startTime stamped, nothing else written.
\* stage and promise are the states of the promise stage.accept returned and
\* of the promise createEvent returns; due is when the stage settles its call.
NewEvent(due) ==
    [startTime |-> now, endTime |-> Undefined, response |-> Unset, due |-> due,
     stage |-> "pending", promise |-> "pending"]

\* createEvent(stage): stamp startTime, call stage.accept.  The stage decides
\* when (if ever) its promise settles.
CreateEvent(due) ==
    /\ events' = Append(events, NewEvent(due))
    /\ accepted' = accepted + 1

\* One createEvent call of the current iteration (the only call of the
\* single-event branch, one of the batch in the batching branch).
\* The stage settles the call after latency ticks, or never.
Submit(latency) ==
    /\ pc = "submit"
    /\ batchIndex < eventsToSendThisTick
    /\ CreateEvent(IF latency = Never THEN Never ELSE now + latency)
    /\ batchIndex' = batchIndex + 1
    /\ UNCHANGED <<eventsPer1000Ticks, arrivalRate, numEventsToSend, eventsSent,
                   eventsToSendThisTick, pc, now, running, wakeAt, waits,
                   tickDelta, table>>

\* Variant of WaitTicks: both branches wait one tick.
WaitOneTick(delta) == Tick

\* Variant of WaitTicks: both branches wait tickDelta.
WaitTickDelta(delta) == delta

\* The ticks the loop waits before its next iteration: 1 in the batching
\* branch, the iteration's tickDelta in the single-event branch.
WaitTicks(delta) == IF delta < Tick THEN Tick ELSE delta

\* Variant of SentAfterIteration: the running total is not increased.
SentUnchanged == eventsSent

\* eventsSent += eventsToSendThisTick  /  eventsSent++, once the createEvent
\* calls of this iteration have been made.
SentAfterIteration == eventsSent + eventsToSendThisTick

\* Variant of Break: _arrivalRate is not reset after the loop.
BreakKeepsRate ==
    /\ pc = "submit"
    /\ batchIndex >= eventsToSendThisTick
    /\ SentAfterIteration >= numEventsToSend
    /\ eventsSent' = SentAfterIteration
    /\ pc' = "joining"
    /\ UNCHANGED <<eventsPer1000Ticks, arrivalRate, numEventsToSend,
                   eventsToSendThisTick, batchIndex, events, now, running, wakeAt,
                   accepted, waits,
                   tickDelta, table>>

\* if (eventsSent >= numEventsToSend) break;  after the loop:
\* this._arrivalRate = 0; return events  (run() then awaits the promises).
Break ==
    /\ pc = "submit"
    /\ batchIndex >= eventsToSendThisTick
    /\ SentAfterIteration >= numEventsToSend
    /\ eventsSent' = SentAfterIteration
    /\ arrivalRate' = 0
    /\ pc' = "joining"
    /\ UNCHANGED <<eventsPer1000Ticks, numEventsToSend, eventsToSendThisTick,
                   batchIndex, events, now, running, wakeAt, accepted, waits,
                   tickDelta, table>>

\* await metronome.wait(1) / await metronome.wait(tickDelta)
Wait ==
    /\ pc = "submit"
    /\ batchIndex >= eventsToSendThisTick
    /\ SentAfterIteration < numEventsToSend
    /\ eventsSent' = SentAfterIteration
    /\ wakeAt' = now + WaitTicks(tickDelta)
    /\ waits' = waits + 1
    /\ pc' = "waiting"
    /\ UNCHANGED <<eventsPer1000Ticks, arrivalRate, numEventsToSend,
                   eventsToSendThisTick, batchIndex, events, now, running, accepted,
                   tickDelta, table>>

\* Variant of Resume: the loop also awaits the stage calls made so far.
ResumeAfterStageCalls ==
    /\ pc = "waiting"
    /\ running
    /\ wakeAt <= now
    /\ \A i \in 1..Len(events) : events[i].stage # "pending"
    /\ pc' = "loop"
    /\ wakeAt' = Undefined
    /\ UNCHANGED <<eventsPer1000Ticks, arrivalRate, numEventsToSend, eventsSent,
                   eventsToSendThisTick, batchIndex, events, now, running, accepted,
                   waits,
                   tickDelta, table>>

\* The clock resumes the arrival loop once the waited ticks have elapsed.
Resume ==
    /\ pc = "waiting"
    /\ running
    /\ wakeAt <= now
    /\ pc' = "loop"
    /\ wakeAt' = Undefined
    /\ UNCHANGED <<eventsPer1000Ticks, arrivalRate, numEventsToSend, eventsSent,
                   eventsToSendThisTick, batchIndex, events, now, running, accepted,
                   waits,
                   tickDelta, table>>

\* Variant of ThenHandler: the response is stored, endTime is not stamped.
ThenWithoutEndTime(e, value) ==
    [e EXCEPT !.response = value, !.promise = "fulfilled"]

\* .then(response => { event.response = response; time.endTime = now(); return event })
ThenHandler(e, value) ==
    [e EXCEPT !.response = value, !.endTime = now, !.promise = "fulfilled"]

\* Variant of CatchHandler: no catch is attached, the rejection passes on.
CatchRethrows(e, value) == [e EXCEPT !.promise = "rejected"]

\* .catch(error => { event.response = error; time.endTime = now(); return event })
CatchHandler(e, value) ==
    [e EXCEPT !.response = value, !.endTime = now, !.promise = "fulfilled"]

\* The stage call of event i settles: it resolves with a value of
\* StageResolutions or rejects with a value of StageRejections, and the
\* handler createEvent attached for that outcome runs.
Settle(i, value) ==
    /\ Suspended
    /\ i \in 1..Len(events)
    /\ Pending(events[i])
    /\ events[i].due # Never
    /\ events[i].due <= now
    /\ events' = [events EXCEPT ![i] =
          IF value \in StageResolutions
          THEN ThenHandler([@ EXCEPT !.stage = "resolved"], value)
          ELSE CatchHandler([@ EXCEPT !.stage = "rejected"], value)]
    /\ UNCHANGED <<eventsPer1000Ticks, arrivalRate, numEventsToSend, eventsSent,
                   eventsToSendThisTick, batchIndex, pc, now, running, wakeAt, accepted,
                   waits,
                   tickDelta, table>>

\* The clock advances to the next queued wake time once everything due at
\* the current time has run.
AdvanceClock ==
    /\ running
    /\ Suspended
    /\ WakeTimes # {}
    /\ \A t \in WakeTimes : t > now
    /\ now' = SetMin(WakeTimes)
    /\ UNCHANGED <<eventsPer1000Ticks, arrivalRate, numEventsToSend, eventsSent,
                   eventsToSendThisTick, batchIndex, events, pc, wakeAt, running, accepted,
                   waits,
                   tickDelta, table>>

\* Variant of AllSettled: the join continues once the first promise is fulfilled.
FirstSettled == IF Len(events) = 0 THEN TRUE ELSE Settled(events[1])

\* const events = await Promise.all(pendingEvents): every promise fulfilled.
AllSettled == \A i \in 1..Len(events) : Settled(events[i])

\* Promise.all rejects as soon as one of its promises rejects.
AnyRejected == \E i \in 1..Len(events) : events[i].promise = "rejected"

\* The await of Promise.all can continue.
JoinSettled == AllSettled \/ AnyRejected

\* Variant of Return: endTime is read from the clock when run() joins the
\* events, not when each stage call settles.
ReturnStampsEndTime ==
    /\ pc = "joining"
    /\ JoinSettled
    /\ running' = (running /\ AnyRejected)
    /\ pc' = IF AnyRejected THEN "threw" ELSE "done"
    /\ events' = [i \in 1..Len(events) |-> [events[i] EXCEPT !.endTime = now]]
    /\ UNCHANGED <<eventsPer1000Ticks, arrivalRate, numEventsToSend, eventsSent,
                   eventsToSendThisTick, batchIndex, now, wakeAt, accepted, waits,
                   tickDelta, table>>

\* Promise.all has settled.  Fulfilled: metronome.stop(); return events.
\* Rejected: the await throws and run() rejects without stopping the clock.
Return ==
    /\ pc = "joining"
    /\ JoinSettled
    /\ running' = (running /\ AnyRejected)
    /\ pc' = IF AnyRejected THEN "threw" ELSE "done"
    /\ UNCHANGED <<eventsPer1000Ticks, arrivalRate, numEventsToSend, eventsSent,
                   eventsToSendThisTick, batchIndex, events, now, wakeAt, accepted, waits,
                   tickDelta, table>>

Next ==
    \/ \E rate \in Rates : Configure(rate)
    \/ \E n \in 0..MaxEvents : Run(n)
    \/ LoopTop
    \/ \E latency \in StageLatencies \cup {Never} : Submit(latency)
    \/ Break
    \/ Wait
    \/ Resume
    \/ \E i \in 1..MaxEvents + 1 : \E v \in StageResolutions \cup StageRejections :
          Settle(i, v)
    \/ AdvanceClock
    \/ Return

Spec == Init /\ [][Next]_vars

\* -------------------------------------------------- invalid configurations
\* Configurations the caller must not use: a non-positive rate and negative
\* event counts.  (Rate 0 makes tickDelta infinite and is not modelled.)
InvalidRates == {0 - RateWindow}
InvalidCounts == {0 - 1, 0 - 2}

\* The loop's wait, followed only while eventsSent is above -MaxEvents: with
\* a negative rate eventsSent decreases without end.
WaitWhileAbove ==
    /\ eventsSent > 0 - MaxEvents
    /\ Wait

\* The program started with any configuration, valid or not.
NextConfig ==
    \/ \E rate \in Rates \cup InvalidRates : Configure(rate)
    \/ \E n \in InvalidCounts \cup (0..MaxEvents) : Run(n)
    \/ LoopTop
    \/ \E latency \in StageLatencies \cup {Never} : Submit(latency)
    \/ Break
    \/ WaitWhileAbove
    \/ Resume
    \/ \E i \in 1..MaxEvents + 1 : \E v \in StageResolutions \cup StageRejections :
          Settle(i, v)
    \/ AdvanceClock
    \/ Return

SpecConfig == Init /\ [][NextConfig]_vars

\* ------------------------------------------------------ cooperative runs
\* Runs in which every stage call settles: the stage answers each call
\* after a latency of StageLatencies, with a success or with a failure.
NextLive ==
    \/ \E rate \in Rates : Configure(rate)
    \/ \E n \in 0..MaxEvents : Run(n)
    \/ LoopTop
    \/ \E latency \in StageLatencies : Submit(latency)
    \/ Break
    \/ Wait
    \/ Resume
    \/ \E i \in 1..MaxEvents + 1 : \E v \in {"success", "fail"} : Settle(i, v)
    \/ AdvanceClock
    \/ Return

\* What the runtime does unasked once run() was called: it runs the
\* synchronous code of sendEvents to its next await, runs the handler of a
\* settled promise, moves the clock to its next wake time and resumes the
\* code awaiting it.
Progress ==
    \/ LoopTop
    \/ \E latency \in StageLatencies : Submit(latency)
    \/ Break
    \/ Wait
    \/ Resume
    \/ \E i \in 1..MaxEvents + 1 : \E v \in {"success", "fail"} : Settle(i, v)
    \/ AdvanceClock
    \/ Return

SpecLive == Init /\ [][NextLive]_vars /\ WF_vars(Progress)

\* ------------------------------------------------- rate changes mid-run
\* Code that runs while a run is emitting (the synchronous part of
\* stage.accept, or a callback while sendEvents awaits its wait) assigns
\* simulation.eventsPer1000Ticks.
ChangeRate(rate) ==
    /\ (pc = "submit" /\ batchIndex > 0) \/ pc = "waiting"
    /\ rate # eventsPer1000Ticks
    /\ eventsPer1000Ticks' = rate
    /\ UNCHANGED <<arrivalRate, numEventsToSend, eventsSent, eventsToSendThisTick,
                   batchIndex, events, pc, now, running, wakeAt, accepted, waits,
                   tickDelta, table>>

\* Runs whose rate changes while they emit; the stage resolves every call,
\* at once or after the longest latency.
NextRate ==
    \/ \E rate \in Rates : Configure(rate)
    \/ \E n \in 0..MaxEvents : Run(n)
    \/ LoopTop
    \/ \E latency \in {0, MaxLatency * Tick} : Submit(latency)
    \/ \E rate \in Rates : ChangeRate(rate)
    \/ Break
    \/ Wait
    \/ Resume
    \/ \E i \in 1..MaxEvents + 1 : Settle(i, "success")
    \/ AdvanceClock
    \/ Return

SpecRate == Init /\ [][NextRate]_vars

\* ------------------------------------------------------- statistics engine
\* A JavaScript number of the statistics: NaN, a non-negative fraction
\* num/den in lowest terms, or the square root of such a fraction.
NaN == [nan |-> TRUE, root |-> FALSE, num |-> 0, den |-> 1]

\* n / d as JavaScript computes it for n >= 0, d >= 0; only 0 / 0 has d = 0 here.
Ratio(n, d) ==
    IF d = 0 THEN NaN
    ELSE LET g == GCD(n, d) IN
         [nan |-> FALSE, root |-> FALSE, num |-> n \div g, den |-> d \div g]

\* Math.sqrt(x)
Root(x) == IF x.nan THEN NaN ELSE [x EXCEPT !.root = TRUE]

\* The integer m with m * m = n, or -1 when n is no perfect square.
WholeRoot(n) ==
    IF \E m \in 0..n : m * m = n THEN CHOOSE m \in 0..n : m * m = n ELSE 0 - 1

\* result % 1 == 0
IsWhole(x) ==
    /\ ~x.nan
    /\ x.num % x.den = 0
    /\ x.root => WholeRoot(x.num \div x.den) >= 0

\* Largest r in lo..hi with (2r - 1)^2 * den <= 4 * 10^6 * num: the number of
\* thousandths nearest to sqrt(num / den), a tie going up.
RECURSIVE RoundRoot(_, _, _, _)
RoundRoot(num, den, lo, hi) ==
    IF lo >= hi THEN lo
    ELSE LET mid == (lo + hi + 1) \div 2 IN
         IF (2 * mid - 1) * (2 * mid - 1) * den <= 4000000 * num
         THEN RoundRoot(num, den, mid, hi)
         ELSE RoundRoot(num, den, lo, mid - 1)

\* x in thousandths, rounded as toFixed(3) rounds (a tie goes up).  Within
\* the collection sizes modelled every tie is a multiple of 1/16, which a
\* double holds exactly.
Milli(x) ==
    IF x.root THEN RoundRoot(x.num, x.den, 0, 1000 * (1 + x.num \div x.den))
    ELSE (2000 * x.num + x.den) \div (2 * x.den)

\* A cell of a table: a number (a whole value, in thousandths) or the
\* string toFixed(3) returned ("NaN" for NaN).
NumberCell(m) == [type |-> "number", nan |-> FALSE, milli |-> m]
StringCell(m) == [type |-> "string", nan |-> FALSE, milli |-> m]
NaNCell == [type |-> "string", nan |-> TRUE, milli |-> 0]

\* x.toFixed(precision), precision = 3
ToFixed(x) == IF x.nan THEN NaNCell ELSE StringCell(Milli(x))

\* result % 1 == 0 ? result : result.toFixed(precision)
Cell(x) ==
    IF IsWhole(x)
    THEN NumberCell(1000 * (IF x.root THEN WholeRoot(x.num \div x.den)
                                      ELSE x.num \div x.den))
    ELSE ToFixed(x)

\* Variant of IsFail: every rejected stage call counts as a failure.
IsRejected(e) == e.stage = "rejected"

\* e.response == "fail"
IsFail(e) == e.response = "fail"
IsSuccess(e) == ~IsFail(e)

\* events.forEach(e => ... fail.push(e) ... success.push(e))
FailBucket(all) == SelectSeq(all, IsFail)
SuccessBucket(all) == SelectSeq(all, IsSuccess)

\* e.responseTime.endTime - e.responseTime.startTime
Latency(e) == e.endTime - e.startTime

RECURSIVE SumLatency(_)
SumLatency(es) ==
    IF es = <<>> THEN 0 ELSE Latency(Head(es)) + SumLatency(Tail(es))

RECURSIVE SumSquares(_)
SumSquares(es) ==
    IF es = <<>> THEN 0 ELSE Latency(Head(es)) * Latency(Head(es)) + SumSquares(Tail(es))

\* const count = (e) => e.length
CountColumn(es, all) == Ratio(Len(es), 1)

\* const percent = (e) => events.length > 0 ? e.length / events.length : 0
PercentColumn(es, all) == IF Len(all) > 0 THEN Ratio(Len(es), Len(all)) ELSE Ratio(0, 1)

\* Variant of MeanLatencyColumn: an empty bucket has mean latency 0.
MeanLatencyOrZero(es, all) ==
    IF Len(es) = 0 THEN Ratio(0, 1) ELSE Ratio(SumLatency(es), Len(es) * Tick)

\* const mean_latency = (e) => e.map(...).reduce((sum, cur) => sum + cur, 0) / e.length
MeanLatencyColumn(es, all) == Ratio(SumLatency(es), Len(es) * Tick)

\* standardDeviation(latencies): the population standard deviation, NaN for
\* no samples.
StandardDeviation(es) ==
    LET n == Len(es) IN
    Root(Ratio(n * SumSquares(es) - SumLatency(es) * SumLatency(es), n * n * Tick * Tick))

\* const std_latency = (e) => standardDeviation(e.map(...))
StdLatencyColumn(es, all) == StandardDeviation(es)

\* One row of the summary: every column applied to the bucket and formatted.
SummaryRow(type, es, all) ==
    [type |-> type,
     count |-> Cell(CountColumn(es, all)),
     percent |-> Cell(PercentColumn(es, all)),
     mean_latency |-> Cell(MeanLatencyColumn(es, all)),
     std_latency |-> Cell(StdLatencyColumn(es, all))]

\* createEventSummary(events): const table = [successRow, failRow]
CreateEventSummary(all) ==
    <<SummaryRow("success", SuccessBucket(all), all),
      SummaryRow("fail", FailBucket(all), all)>>

\* The difference taken as a sum.
DiffMetricSum(b, a) ==
    IF a.nan \/ b.nan THEN NaNCell ELSE StringCell(b.milli + a.milli)

\* (parseFloat(b) - parseFloat(a)).toFixed(precision)
DiffMetric(b, a) ==
    IF a.nan \/ b.nan THEN NaNCell ELSE StringCell(b.milli - a.milli)

\* bRow.count - aRow.count
DiffCount(b, a) == NumberCell(b.milli - a.milli)

DiffRow(type, aRow, bRow) ==
    [type |-> type,
     count |-> DiffCount(bRow.count, aRow.count),
     percent |-> DiffMetric(bRow.percent, aRow.percent),
     mean_latency |-> DiffMetric(bRow.mean_latency, aRow.mean_latency),
     std_latency |-> DiffMetric(bRow.std_latency, aRow.std_latency)]

\* eventCompare(a, b): const diff = [ {success ...}, {fail ...} ]
EventDiff(a, b) ==
    LET aSummary == CreateEventSummary(a)
        bSummary == CreateEventSummary(b)
    IN  <<DiffRow("success", aSummary[1], bSummary[1]),
          DiffRow("fail", aSummary[2], bSummary[2])>>

\* The completed events a collection is built from: a response and a
\* latency in ticks, in the order in which a collection lists them.
StatKinds ==
    <<[response |-> "success", ticks |-> 0], [response |-> "success", ticks |-> 1],
      [response |-> "error", ticks |-> 1],
      [response |-> "fail", ticks |-> 0], [response |-> "fail", ticks |-> 1]>>

\* A completed event of the given kind, as run() returns it.
CompletedEvent(k) ==
    [startTime |-> 0, endTime |-> StatKinds[k].ticks * Tick,
     response |-> StatKinds[k].response, due |-> StatKinds[k].ticks * Tick,
     stage |-> IF StatKinds[k].response \in StageResolutions THEN "resolved"
               ELSE "rejected",
     promise |-> "fulfilled"]

KindOf(e) == CHOOSE k \in 1..Len(StatKinds) : CompletedEvent(k) = e

\* a without its last event (the empty collection stays empty).
AllButLast(a) == IF a = <<>> THEN a ELSE SubSeq(a, 1, Len(a) - 1)

\* The caller holds a collection of completed events and nothing is printed.
InitStats ==
    /\ Init
    /\ pc = "idle"

\* The caller adds a completed event to the collection.  No column depends
\* on the order of the events, so collections are built in one order only.
Collect(k) ==
    /\ pc = "idle"
    /\ table = <<>>
    /\ Len(events) < MaxCollection
    /\ events # <<>> => KindOf(events[Len(events)]) <= k
    /\ events' = Append(events, CompletedEvent(k))
    /\ UNCHANGED <<eventsPer1000Ticks, arrivalRate, numEventsToSend, eventsSent,
                   eventsToSendThisTick, batchIndex, pc, now, running, wakeAt, accepted,
                   waits, tickDelta, table>>

\* eventSummary(events): console.table(createEventSummary(events))
EventSummary ==
    /\ pc = "idle"
    /\ table = <<>>
    /\ table' = [title |-> "Overview of Events", of |-> <<events>>,
                 rows |-> CreateEventSummary(events)]
    /\ UNCHANGED <<eventsPer1000Ticks, arrivalRate, numEventsToSend, eventsSent,
                   eventsToSendThisTick, batchIndex, events, pc, now, running, wakeAt,
                   accepted, waits, tickDelta>>

\* eventCompare(events, b): console.table(diff)
EventCompare(b) ==
    /\ pc = "idle"
    /\ table = <<>>
    /\ table' = [title |-> "Diff of the events, (B - A):", of |-> <<events, b>>,
                 rows |-> EventDiff(events, b)]
    /\ UNCHANGED <<eventsPer1000Ticks, arrivalRate, numEventsToSend, eventsSent,
                   eventsToSendThisTick, batchIndex, events, pc, now, running, wakeAt,
                   accepted, waits, tickDelta>>

NextStats ==
    \/ \E k \in 1..Len(StatKinds) : Collect(k)
    \/ EventSummary
    \/ \E b \in {events, AllButLast(events)} : EventCompare(b)

SpecStats == InitStats /\ [][NextStats]_vars

\* ------------------------------------------------------------- properties
Rate == eventsPer1000Ticks
Started == pc # "idle"
Returned == pc = "done"
ArrivalOver == pc \in {"joining", "done", "threw"}
SingleBranch == Rate <= RateWindow
BatchBranch == Rate > RateWindow
StartTimes == [i \in 1..Len(events) |-> events[i].startTime]
\* floor(r / 1000): the events per tick the rate asks for, rounded down.
FloorPerTick == Rate \div RateWindow
\* 1000 / r ticks, the inter-arrival time of the rate (exact in model units).
InterArrival == (RateWindow * Tick) \div Rate
\* N * 1000 / r ticks and a time t, both multiplied by r to stay integral.
NominalTimesRate == numEventsToSend * RateWindow * Tick
Abs(x) == IF x < 0 THEN 0 - x ELSE x
Max(a, b) == IF a > b THEN a ELSE b

\* C1: a completed run(stage, N) returns exactly N events, for every N >= 0
\* and every positive rate, and every returned event has endTime >= startTime.
RunReturnsExactlyN ==
    Returned =>
        /\ Len(events) = numEventsToSend
        /\ \A i \in 1..Len(events) : events[i].endTime >= events[i].startTime

\* C2: with numEventsToSend = 0 the run never invokes stage.accept, never
\* waits on the clock and returns an empty collection, whatever the rate.
ZeroEventsNoSubmission ==
    (Started /\ numEventsToSend = 0) =>
        /\ accepted = 0
        /\ waits = 0
        /\ (Returned => events = <<>>)

\* C3: batching.  When k = floor(1/tickDelta) > 1, the events are submitted
\* k per tick: the i-th event (from 0) is stamped with tick i div k, so every
\* tick but the last carries exactly k events and the last the remainder;
\* batches are one tick apart; a tick's events carry the clock value of
\* their submission; the running total never exceeds N and ends at N.
BatchingCorrect ==
    LET k == FloorPerTick IN
    (Started /\ k > 1) =>
        /\ Len(events) <= numEventsToSend
        /\ eventsSent <= numEventsToSend
        /\ \A i \in 1..Len(events) : events[i].startTime = ((i - 1) \div k) * Tick
        /\ (pc = "submit" => Len(events) = eventsSent + batchIndex)
        /\ (pc = "submit" /\ batchIndex > 0 => events[Len(events)].startTime = now)
        /\ (pc = "waiting" =>
               /\ Len(events) % k = 0
               /\ wakeAt = events[Len(events)].startTime + Tick)
        /\ (ArrivalOver => Len(events) = numEventsToSend)

\* C3 witness: rate 2000 (two per tick) and N = 3 gave two events at tick 0
\* and the remaining one at tick 1.
BatchingWitness ==
    /\ Returned
    /\ Rate = 2 * RateWindow
    /\ numEventsToSend = 3
    /\ StartTimes = <<0, 0, Tick>>

\* C4: single-event spacing.  When tickDelta >= 1 every iteration submits
\* exactly one event and the i-th event (from 0) has startTime i * tickDelta;
\* an event whose stage call settles with no delay has endTime = startTime.
SingleEventSpacing ==
    (Started /\ SingleBranch) =>
        /\ \A i \in 1..Len(events) :
              /\ events[i].startTime = (i - 1) * InterArrival
              /\ (Settled(events[i]) /\ events[i].due = events[i].startTime
                    => events[i].endTime = events[i].startTime)
        /\ (pc = "loop" => Len(events) = waits)
        /\ (pc = "submit" => Len(events) = waits + batchIndex)
        /\ (pc = "waiting" =>
               /\ Len(events) = waits
               /\ wakeAt = events[Len(events)].startTime + InterArrival)
        /\ (ArrivalOver => Len(events) = waits + 1)

\* C4 witness: the default rate (tickDelta = 20) sent three events at 0, 20
\* and 40 ticks to a stage that succeeded each time with no delay.
SingleEventWitness ==
    /\ Returned
    /\ Rate = DefaultRate
    /\ StartTimes = <<0, 20 * Tick, 40 * Tick>>
    /\ \A i \in 1..3 : events[i].endTime = events[i].startTime
                         /\ events[i].response = "success"

\* Time of the last submission, measured from the clock start (0).
LastSubmission == events[Len(events)].startTime

ScheduledStart(i) == ((i - 1) \div Max(1, FloorPerTick)) * Max(Tick, InterArrival)

\* C6: the arrival loop suspends on metronome.wait only.  The clock never
\* passes the loop's wake time, the loop can resume the moment that time is
\* reached whatever the stage calls are doing, and so every startTime is the
\* one the rate schedules, for every choice of stage latencies.
ArrivalNotBlocked ==
    /\ (pc = "waiting" => now <= wakeAt)
    /\ (pc = "waiting" /\ now = wakeAt => ENABLED Resume)
    /\ \A i \in 1..Len(events) : events[i].startTime = ScheduledStart(i)

\* C6 witness: the second event was submitted, at a later time, while the
\* stage call of the first was still unsettled.
SubmittedWhilePending ==
    /\ Len(events) >= 2
    /\ Pending(events[1])
    /\ events[2].startTime > events[1].startTime

\* C7: run() returns only after the arrival schedule is exhausted and every
\* stage call has settled: at the return every event has response and
\* endTime set, and a run with a stage call that never settles has not
\* returned.
ReturnsAfterAllSettled ==
    /\ Returned =>
          /\ eventsSent >= numEventsToSend
          /\ wakeAt = Undefined
          /\ \A i \in 1..Len(events) :
                /\ events[i].stage # "pending"
                /\ events[i].response # Unset
                /\ events[i].endTime # Undefined
    /\ (\E i \in 1..Len(events) : events[i].due = Never) => ~Returned

\* C7 witness: a run returned whose first event settled only after the
\* last event had been submitted.
JoinWaitedWitness ==
    /\ Returned
    /\ Len(events) >= 2
    /\ events[1].endTime > LastSubmission

\* C8: a rejected stage call is captured as the event's response with
\* endTime stamped at the rejection, run() never throws, arrivals go on
\* until N are sent, and the returned collection holds every submitted
\* event, settled.
StageFailureCaptured ==
    /\ pc # "threw"
    /\ \A i \in 1..Len(events) :
          /\ events[i].promise # "rejected"
          /\ events[i].stage = "rejected" =>
                /\ events[i].response \in StageRejections
                /\ events[i].endTime = events[i].due
                /\ Settled(events[i])
    /\ ArrivalOver => eventsSent >= numEventsToSend
    /\ Returned =>
          /\ Len(events) = accepted
          /\ Len(events) >= numEventsToSend
          /\ AllSettled

\* C8 witness: a run of 3 events returned although the first stage call was
\* rejected before the later events were submitted and settled.
FailureWitness ==
    /\ Returned
    /\ numEventsToSend = 3
    /\ Len(events) = 3
    /\ events[1].stage = "rejected"
    /\ events[1].endTime < events[2].startTime
    /\ events[3].stage = "resolved"

\* C9 as claimed: of two events submitted one after the other, the later
\* has the strictly greater startTime.
StrictlyIncreasingStarts ==
    \A i \in 1..Len(events) - 1 : events[i].startTime < events[i + 1].startTime

\* C9 amended: startTimes never decrease in submission order; two
\* consecutive events share a startTime only inside one batch of the
\* batching branch (k = floor(r / 1000) >= 2), and increase strictly
\* otherwise.
StartsOrdered ==
    LET k == FloorPerTick IN
    \A i \in 1..Len(events) - 1 :
        /\ events[i].startTime <= events[i + 1].startTime
        /\ (events[i].startTime = events[i + 1].startTime)
              <=> (k >= 2 /\ (i - 1) \div k = i \div k)

\* C9 witness: two events of one batch share a startTime and the next
\* batch is later.
SharedStartWitness ==
    /\ Len(events) >= 3
    /\ events[1].startTime = events[2].startTime
    /\ events[2].startTime < events[3].startTime

\* C10: getArrivalRate() is 0 before the run, the configured rate from the
\* first submission to the last (submitting or waiting between
\* submissions), and 0 once emission has finished and the run has returned.
ArrivalRateLifecycle ==
    /\ pc = "idle" => arrivalRate = 0
    /\ pc \in {"submit", "waiting"} => arrivalRate = Rate
    /\ (pc = "loop" /\ Len(events) > 0) => arrivalRate = Rate
    /\ ArrivalOver => arrivalRate = 0

\* C10 witness: the loop waits between two submissions of a run at a
\* non-default rate, and the accessor shows that rate.
EmittingWitness ==
    /\ pc = "waiting"
    /\ Len(events) >= 1
    /\ Rate # DefaultRate
    /\ arrivalRate = Rate

\* C11: a run started with a non-positive rate or a negative event count
\* ends in an error before any event is created or submitted and before any
\* clock wait is scheduled; in particular it never returns normally.
ConfigErrorsFailFast ==
    (Started /\ (Rate <= 0 \/ numEventsToSend < 0)) =>
        /\ events = <<>>
        /\ accepted = 0
        /\ waits = 0
        /\ ~Returned

Summarised == table # <<>> /\ table.title = "Overview of Events"
Compared == table # <<>> /\ table.title = "Diff of the events, (B - A):"
SelfCompared == Compared /\ table.of[1] = table.of[2]
SuccessRow == table.rows[1]
FailRow == table.rows[2]
Collection == table.of[1]
FailIndexes(a) == {i \in 1..Len(a) : a[i].response = "fail"}
\* A cell that shows the value zero, as a number or as a string.
ZeroCell(c) == ~c.nan /\ c.milli = 0

\* C12: in every summary the two counts add up to the size of the
\* collection, and the two percents add up to 1, or are both 0 when the
\* collection is empty.
SummaryCountsAndPercents ==
    Summarised =>
        /\ SuccessRow.type = "success" /\ FailRow.type = "fail"
        /\ SuccessRow.count.milli + FailRow.count.milli = 1000 * Len(Collection)
        /\ ~SuccessRow.percent.nan /\ ~FailRow.percent.nan
        /\ IF Len(Collection) > 0
           THEN SuccessRow.percent.milli + FailRow.percent.milli = 1000
           ELSE SuccessRow.percent.milli = 0 /\ FailRow.percent.milli = 0

\* The rows of a printed diff and the buckets of the collection compared.
DiffRows == {table.rows[1], table.rows[2]}
FailCount(a) == Cardinality(FailIndexes(a))
SuccessCount(a) == Len(a) - FailCount(a)
BucketSize(row) ==
    IF row.type = "fail" THEN FailCount(Collection) ELSE SuccessCount(Collection)
Metrics(row) == {row.count, row.percent, row.mean_latency, row.std_latency}

\* C13 as stated: eventCompare(a, a) prints a diff in which every metric of
\* the success row and of the fail row is zero, for every collection a,
\* a collection with an empty bucket included.
SelfCompareAllZero ==
    SelfCompared => \A row \in DiffRows : \A c \in Metrics(row) : ZeroCell(c)

\* C13 amended: eventCompare(a, a) prints a zero count and a zero percent
\* in both rows; mean_latency and std_latency are zero in the row of a
\* bucket that holds events and not-a-number in the row of an empty bucket.
SelfCompareZeroOrNaN ==
    SelfCompared =>
        \A row \in DiffRows :
            /\ ZeroCell(row.count) /\ ZeroCell(row.percent)
            /\ IF BucketSize(row) > 0
               THEN ZeroCell(row.mean_latency) /\ ZeroCell(row.std_latency)
               ELSE row.mean_latency = NaNCell /\ row.std_latency = NaNCell

\* A collection of successes of which one took time, and no failure, was
\* compared with itself: the fail bucket is empty.
SelfCompareEmptyBucketWitness ==
    /\ SelfCompared
    /\ Len(Collection) = MaxCollection - 1
    /\ FailCount(Collection) = 0
    /\ \E i \in 1..Len(Collection) : Latency(Collection[i]) > 0

\* Neither handler of the event has written to it.
Untouched(e) == e.response = Unset /\ e.endTime = Undefined
\* A handler has written both fields of the event.
Written(e) == e.response # Unset /\ e.endTime # Undefined

\* One step as seen by one event: e before the step, f after it.
WrittenAtMostOnce(e, f) ==
    /\ Untouched(e) \/ Written(e)
    /\ Pending(e) <=> Untouched(e)
    /\ f.startTime = e.startTime
    /\ IF Untouched(e)
       THEN (Pending(f) /\ Untouched(f)) \/ (~Pending(f) /\ Written(f))
       ELSE f.response = e.response /\ f.endTime = e.endTime /\ f.stage = e.stage

\* C14: response and endTime of an event are both unset from its creation
\* until its stage call settles, are set together by the step that settles
\* it, and are never written again: every step leaves a written event's
\* response and endTime as they are, and every event is created unwritten.
EventMutatedOnce ==
    [][/\ Len(events') >= Len(events)
       /\ \A i \in 1..Len(events) : WrittenAtMostOnce(events[i], events'[i])
       /\ \A i \in (Len(events) + 1)..Len(events') :
             Untouched(events'[i]) /\ Pending(events'[i])]_vars

\* A run has returned in which one stage call resolved and one rejected,
\* the first of them settling before the clock reached its present value.
MutatedOnceWitness ==
    /\ Returned
    /\ \E i, j \in 1..Len(events) :
          /\ events[i].stage = "resolved" /\ events[j].stage = "rejected"
          /\ events[i].endTime < now
          /\ Written(events[i]) /\ Written(events[j])

SummaryRows == {SuccessRow, FailRow}

\* C15: in a summary, the row of a bucket without events reports
\* mean_latency and std_latency as not-a-number, never as a finite number,
\* and reports count 0 and percent 0; the row of a bucket with events
\* reports finite latencies.
EmptyBucketIsNaN ==
    Summarised =>
        \A row \in SummaryRows :
            IF BucketSize(row) = 0
            THEN /\ row.mean_latency = NaNCell /\ row.std_latency = NaNCell
                 /\ row.count = NumberCell(0) /\ row.percent = NumberCell(0)
            ELSE ~row.mean_latency.nan /\ ~row.std_latency.nan

\* The summary of five successes that took no time: the success row is
\* {count 5, percent 1, mean_latency 0, std_latency 0}, the fail bucket is empty.
EmptyBucketWitness ==
    /\ Summarised
    /\ Len(Collection) = 5
    /\ FailCount(Collection) = 0
    /\ SuccessRow = [type |-> "success", count |-> NumberCell(5000),
                     percent |-> NumberCell(1000), mean_latency |-> NumberCell(0),
                     std_latency |-> NumberCell(0)]

\* The events of a collection whose response is anything but the fail marker.
OtherIndexes(a) == {i \in 1..Len(a) : a[i].response \in {"success", "error"}}

\* C16: a summary counts every event of the collection in exactly one row:
\* in the fail row exactly the events whose response is "fail", in the
\* success row all others, the ones that captured a rejection with another
\* value ("error") included.
PartitionBinaryTotal ==
    Summarised =>
        /\ FailIndexes(Collection) \cup OtherIndexes(Collection) = 1..Len(Collection)
        /\ FailRow.count = NumberCell(1000 * Cardinality(FailIndexes(Collection)))
        /\ SuccessRow.count = NumberCell(1000 * Cardinality(OtherIndexes(Collection)))
        /\ SuccessRow.count.milli + FailRow.count.milli = 1000 * Len(Collection)

\* A summary of a collection that holds a success, a captured "error"
\* rejection and a "fail".
PartitionWitness ==
    /\ Summarised
    /\ \E i, j, k \in 1..Len(Collection) :
          /\ Collection[i].response = "success"
          /\ Collection[j].response = "error" /\ Collection[j].stage = "rejected"
          /\ Collection[k].response = "fail"
    /\ SuccessRow.count.milli > FailRow.count.milli

\* C17: an event's startTime is the clock value at which stage.accept was
\* invoked for it and its endTime the clock value at which its stage call
\* settled: a call that settles d ticks after submission leaves
\* endTime - startTime = d, whatever the clock shows later, at the join
\* and after run() returned included.
TimestampsAtAction ==
    /\ (pc = "submit" /\ batchIndex > 0) => events[Len(events)].startTime = now
    /\ \A i \in 1..Len(events) :
          /\ events[i].startTime <= now
          /\ Written(events[i]) =>
                /\ events[i].endTime = events[i].due
                /\ events[i].endTime - events[i].startTime \in StageLatencies
                /\ events[i].endTime <= now

\* run() returned at a clock value later than the settlement of an event
\* whose stage call took the longest latency, and later than the
\* settlement of one whose call took no time.
LateJoinWitness ==
    /\ Returned
    /\ \E i, j \in 1..Len(events) :
          /\ events[i].endTime - events[i].startTime = MaxLatency * Tick
          /\ events[i].endTime < now
          /\ events[j].endTime = events[j].startTime
          /\ events[j].endTime < now

\* The clock is started exactly while run() is between its first and its
\* last statement; before, nothing of the run has happened, and after,
\* nothing of it is left to happen.
ClockBracketsState ==
    /\ pc \in {"loop", "submit", "waiting", "joining"} => running
    /\ pc = "idle" => ~running /\ events = <<>> /\ accepted = 0 /\ waits = 0
    /\ Returned => /\ ~running
                   /\ eventsSent >= numEventsToSend
                   /\ wakeAt = Undefined
                   /\ \A i \in 1..Len(events) : Written(events[i])

\* C18: metronome.start() precedes the first event and metronome.stop()
\* follows the last wait of the arrival loop and the settlement of every
\* submitted event; every submission, wait, timestamp and clock movement
\* of the run happens while the clock is started.
ClockBracketsRun ==
    [][/\ ClockBracketsState /\ ClockBracketsState'
       /\ (~running /\ running') => (pc = "idle" /\ events' = <<>> /\ waits' = 0)
       /\ (running /\ ~running') =>
             (pc = "joining" /\ AllSettled /\ eventsSent >= numEventsToSend)
       /\ (events' # events \/ accepted' # accepted \/ waits' # waits
             \/ wakeAt' # wakeAt \/ now' # now) => (running /\ running')]_vars

\* The clock was stopped after a run that waited between submissions and
\* whose last stage call settled after the last submission.
BracketWitness ==
    /\ Returned /\ ~running
    /\ waits > 0
    /\ Len(events) >= 2
    /\ events[Len(events)].endTime > events[Len(events)].startTime

\* The arrival loop of a run of N >= 1 events: every iteration submits at
\* least one event, the iterations (one more than the waits) are at most N,
\* and the loop is left with a running total of exactly N.
LoopBounded ==
    (Started /\ numEventsToSend >= 1) =>
        /\ pc = "submit" => eventsToSendThisTick >= 1
        /\ pc \in {"loop", "submit", "waiting"} => eventsSent < numEventsToSend
        /\ waits + 1 <= numEventsToSend
        /\ waits <= eventsSent
        /\ ArrivalOver => eventsSent = numEventsToSend

\* C19: for every rate > 0 and every N >= 1 each iteration of the arrival
\* loop submits at least one event and the loop ends after at most N
\* iterations with the running total N; and when the clock resumes every
\* wait and every stage call settles, run() eventually returns.
RunTerminates ==
    /\ [][LoopBounded /\ LoopBounded']_vars
    /\ (Started /\ numEventsToSend >= 1) ~> Returned

\* A batching run of at least three events has returned after fewer
\* iterations than events.
TerminationWitness ==
    /\ Returned
    /\ BatchBranch
    /\ numEventsToSend >= 3
    /\ eventsSent = numEventsToSend
    /\ waits >= 1 /\ waits + 1 < numEventsToSend

Min(a, b) == IF a < b THEN a ELSE b
\* What one loop iteration does at the rate r: the size of its batch and
\* the ticks it waits afterwards.
IterationSize(r) ==
    IF r > RateWindow THEN Min(r \div RateWindow, numEventsToSend - eventsSent) ELSE 1
IterationWait(r) == IF r > RateWindow THEN Tick ELSE (RateWindow * Tick) \div r

\* C20: every loop iteration reads eventsPer1000Ticks anew: the iteration
\* that begins after a change of the field takes its branch, its batch size,
\* its following wait and the value getArrivalRate() returns from the new
\* rate; the change itself touches neither the events already submitted,
\* nor the wait in progress, nor the iteration under way.
RateReadEachIteration ==
    [][/\ (pc = "loop" /\ pc' = "submit") =>
             /\ arrivalRate' = eventsPer1000Ticks
             /\ eventsToSendThisTick' = IterationSize(eventsPer1000Ticks)
       /\ (pc = "submit" /\ pc' = "waiting") =>
             /\ eventsSent' = eventsSent + IterationSize(arrivalRate)
             /\ wakeAt' = now + IterationWait(arrivalRate)
       /\ (Started /\ eventsPer1000Ticks' # eventsPer1000Ticks) =>
             /\ events' = events /\ wakeAt' = wakeAt /\ pc' = pc
             /\ arrivalRate' = arrivalRate
             /\ eventsToSendThisTick' = eventsToSendThisTick]_vars

\* A run of four events that started at the default rate, was switched to
\* 2000 and then to 1000 while it emitted: one event, a wait of 20 ticks,
\* a batch of two, a wait of one tick, one event.
RateChangeWitness ==
    /\ Returned
    /\ Len(events) = 4
    /\ StartTimes = <<0, (RateWindow \div DefaultRate) * Tick,
                      (RateWindow \div DefaultRate) * Tick,
                      (RateWindow \div DefaultRate) * Tick + Tick>>
    /\ Rate = RateWindow

====
